---- MODULE Spec2Model ----
(***************************************************************************)
(* The approval-mode extension (src/extensions/approval-mode.ts) as a      *)
(* state machine: the closure variable `mode`, the active session branch   *)
(* read through ctx.sessionManager.getBranch() and written through         *)
(* pi.appendEntry, the 'approval-mode' status fragment, and what the last  *)
(* handler did on the UI surface and returned to the host.                 *)
(*                                                                         *)
(* The runtime-uptime extension (src/extensions/runtime-uptime.ts) is      *)
(* modelled beside it: its start timestamp, its timer handle, the clock    *)
(* and the runtime's table of armed intervals (specification SpecUptime),  *)
(* and formatDuration as a function of its argument (SpecFormat).  Each    *)
(* specification leaves the variables of the other parts as constructed.   *)
(***************************************************************************)
EXTENDS Integers, Sequences, FiniteSets, TLC

\* ------------------------------------------------------------------ bounds

\* Longest branch: of those the host loads, navigates to or switches to, and
\* of those reached by appending (appendEntry is unbounded in the code).
MaxBranch == 2
\* Saturation value of the lazy-prompt counter.
MaxLazyPrompts == 2
\* Half-second steps the clock takes after the extension is constructed.
MaxClockSteps == 4
\* Intervals the runtime can hold armed at once.
MaxTimers == 2
\* Reports (status renders and notifications) kept in the log, newest last.
MaxReports == 2
\* formatDuration is applied to every quarter second from -2 s to this many.
MaxQuarterSeconds == 40

\* --------------------------------------------------------------- constants

undefined == "undefined"
STATE_ENTRY_TYPE == "approval-mode-state"
ApprovalMode == {"allow-all", "approve-all"}
ToolNames == {"bash", "mcp"}

\* A custom entry written by persistMode: appendEntry(STATE_ENTRY_TYPE, {mode}).
StateEntry(m) == [type |-> "custom", customType |-> STATE_ENTRY_TYPE, data |-> m]
\* Entries other parties put on a branch: a message, and a custom entry of
\* another extension whose payload happens to carry a mode field.
MessageEntry == [type |-> "message", customType |-> undefined, data |-> undefined]
ForeignEntry == [type |-> "custom", customType |-> "other-extension", data |-> "allow-all"]
\* A custom entry with this extension's tag whose payload holds no valid mode.
MalformedEntry == StateEntry("bogus")
HostEntries == {MessageEntry, ForeignEntry}
Entries == HostEntries \cup {MalformedEntry} \cup {StateEntry(m) : m \in ApprovalMode}

SeqsUpTo(S, n) == UNION {[1..k -> S] : k \in 0..n}
HostBranches == SeqsUpTo(Entries, MaxBranch)
Prefixes(s) == {SubSeq(s, 1, k) : k \in 0..Len(s)}

\* ------------------------------------------------------------------- state

VARIABLES
    mode,       \* the closure variable `mode`
    branch,     \* ctx.sessionManager.getBranch(): the active branch
    hasUI,      \* ctx.hasUI
    pending,    \* lifecycle event the host has emitted and not yet dispatched
    status,     \* last value given to ctx.ui.setStatus("approval-mode", ...)
    ev,         \* name of the last handler that ran, tool name for tool_call
    prevMode,   \* `mode` when that handler was entered
    prompts,    \* ctx.ui.confirm calls of that handler: <<[title, answer]>>
    notified,   \* ctx.ui.notify calls of that handler
    result,     \* value that handler returned to the host
    lazyPrompts, \* ctx.ui.confirm calls made by ensureModeSelected so far
    \* runtime-uptime.ts
    startTimeMs,   \* const startTimeMs = Date.now()
    timer,         \* the closure variable `timer`: NoTimer or an interval id
    nowMs,         \* what Date.now() returns
    timers,        \* intervals armed in the runtime: {[id, due]}
    uptimeStatus,  \* last value given to ctx.ui.setStatus("runtime-uptime", ...)
    uev,           \* last handler or timer callback of the extension that ran
    lastLifecycle, \* last of session_start, session_switch, session_shutdown
    reports,       \* elapsed times reported, newest last: <<[via, at, text]>>
    \* formatDuration on its own
    ms,            \* the argument
    formatted      \* the string returned, as a sequence of characters

approvalVars == <<mode, branch, hasUI, pending, status, ev, prevMode, prompts, notified,
                  result, lazyPrompts>>
uptimeVars == <<startTimeMs, timer, nowMs, timers, uptimeStatus, uev, lastLifecycle, reports>>
formatVars == <<ms, formatted>>
vars == <<approvalVars, uptimeVars, formatVars>>

\* --------------------------------------------------------- pure functions

modeStatusText(m) ==
    IF m = undefined THEN undefined
    ELSE IF m = "allow-all" THEN "<dim>approval: allow all"
    ELSE "<warning>approval: confirm each tool"

\* Variant of persistMode: nothing is appended.
persistModeNever(b, m) == b

persistMode(b, m) ==
    IF m = undefined THEN b ELSE Append(b, StateEntry(m))

\* Variant of scanBranch: the first valid record wins (the loop stops overwriting).
RECURSIVE scanBranchFirst(_, _)
scanBranchFirst(entries, restored) ==
    IF entries = <<>> THEN restored
    ELSE LET entry == Head(entries) IN
         IF entry.type # "custom" \/ entry.customType # STATE_ENTRY_TYPE
         THEN scanBranchFirst(Tail(entries), restored)
         ELSE IF restored = undefined /\ (entry.data = "allow-all" \/ entry.data = "approve-all")
              THEN scanBranchFirst(Tail(entries), entry.data)
              ELSE scanBranchFirst(Tail(entries), restored)

\* The loop of restoreModeFromBranch over the entries still to visit.
RECURSIVE scanBranch(_, _)
scanBranch(entries, restored) ==
    IF entries = <<>> THEN restored
    ELSE LET entry == Head(entries) IN
         IF entry.type # "custom" \/ entry.customType # STATE_ENTRY_TYPE
         THEN scanBranch(Tail(entries), restored)
         ELSE IF entry.data = "allow-all" \/ entry.data = "approve-all"
              THEN scanBranch(Tail(entries), entry.data)
              ELSE scanBranch(Tail(entries), restored)

\* Variant of restoredMode: mode = restored, without the `?? mode` fallback.
restoredModeScanOnly(b, m) == scanBranch(b, undefined)

\* mode = restored ?? mode
restoredMode(b, m) ==
    LET restored == scanBranch(b, undefined) IN
    IF restored # undefined THEN restored ELSE m

\* mode = allowAll ? "allow-all" : "approve-all"
modeFromAnswer(allowAll) == IF allowAll THEN "allow-all" ELSE "approve-all"

\* Variant of failSafeMode: the permissive mode as the no-UI default.
failSafeModeAllow == "allow-all"

\* The mode ensureModeSelected assigns when no UI is attached.
failSafeMode == "approve-all"

ModePrompt(allowAll) == [title |-> "Permission mode", answer |-> allowAll]
ApprovePrompt(confirmed) == [title |-> "Approve tool call?", answer |-> confirmed]

\* Variant of ensureModeSelected: the no-UI path sets the mode and forgets persistMode().
ensureModeSelectedNoPersist(m, b, st, ui, allowAll) ==
    IF m # undefined
    THEN [mode |-> m, branch |-> b, status |-> modeStatusText(m), prompts |-> <<>>]
    ELSE IF ~ui
    THEN [mode |-> failSafeMode, branch |-> b, status |-> st, prompts |-> <<>>]
    ELSE [mode |-> modeFromAnswer(allowAll),
          branch |-> persistMode(b, modeFromAnswer(allowAll)),
          status |-> modeStatusText(modeFromAnswer(allowAll)),
          prompts |-> <<ModePrompt(allowAll)>>]

\* Variant of ensureModeSelected: the prompt path forgets the final setStatus.
ensureModeSelectedNoStatus(m, b, st, ui, allowAll) ==
    IF m # undefined
    THEN [mode |-> m, branch |-> b, status |-> modeStatusText(m), prompts |-> <<>>]
    ELSE IF ~ui
    THEN [mode |-> failSafeMode, branch |-> persistMode(b, failSafeMode),
          status |-> st, prompts |-> <<>>]
    ELSE [mode |-> modeFromAnswer(allowAll),
          branch |-> persistMode(b, modeFromAnswer(allowAll)),
          status |-> st,
          prompts |-> <<ModePrompt(allowAll)>>]

\* ensureModeSelected: the state it leaves and the prompts it showed.
ensureModeSelected(m, b, st, ui, allowAll) ==
    IF m # undefined
    THEN [mode |-> m, branch |-> b, status |-> modeStatusText(m), prompts |-> <<>>]
    ELSE IF ~ui
    THEN [mode |-> failSafeMode, branch |-> persistMode(b, failSafeMode),
          status |-> st, prompts |-> <<>>]
    ELSE [mode |-> modeFromAnswer(allowAll),
          branch |-> persistMode(b, modeFromAnswer(allowAll)),
          status |-> modeStatusText(modeFromAnswer(allowAll)),
          prompts |-> <<ModePrompt(allowAll)>>]

\* Variant of selectIfUnset: the `if (!mode)` test is missing and the choice is
\* made again on every event.
selectIfUnsetAlwaysAsk(m, b, st, ui, allowAll) ==
    ensureModeSelected(undefined, b, st, ui, allowAll)

\* if (!mode) await ensureModeSelected(ctx), as the input and tool_call handlers do.
selectIfUnset(m, b, st, ui, allowAll) ==
    IF m = undefined THEN ensureModeSelected(m, b, st, ui, allowAll)
    ELSE [mode |-> m, branch |-> b, status |-> st, prompts |-> <<>>]

\* What an async handler that returns nothing, or `undefined`, gives the host.
ReturnsUndefined == [value |-> undefined]

NoUIReason == <<"Tool call blocked (approve-all mode requires interactive confirmation)">>
UserReason(toolName) == <<"Blocked by user (tool: ", toolName, ")">>

\* Variant of toolCallDecision: the hasUI test comes before the mode test.
toolCallDecisionUIFirst(m, ui, confirmed, toolName) ==
    IF ~ui THEN [prompts |-> <<>>, result |-> [block |-> TRUE, reason |-> NoUIReason]]
    ELSE IF m # "approve-all" THEN [prompts |-> <<>>, result |-> ReturnsUndefined]
    ELSE IF ~confirmed
         THEN [prompts |-> <<ApprovePrompt(confirmed)>>,
               result |-> [block |-> TRUE, reason |-> UserReason(toolName)]]
         ELSE [prompts |-> <<ApprovePrompt(confirmed)>>, result |-> ReturnsUndefined]

\* Variant of toolCallDecision: the hasUI test is missing.
toolCallDecisionNoUICheck(m, ui, confirmed, toolName) ==
    IF m # "approve-all" THEN [prompts |-> <<>>, result |-> ReturnsUndefined]
    ELSE IF ~confirmed
         THEN [prompts |-> <<ApprovePrompt(confirmed)>>,
               result |-> [block |-> TRUE, reason |-> UserReason(toolName)]]
         ELSE [prompts |-> <<ApprovePrompt(confirmed)>>, result |-> ReturnsUndefined]

\* Variant of toolCallDecision: `if (confirmed)` in place of `if (!confirmed)`.
toolCallDecisionInverted(m, ui, confirmed, toolName) ==
    IF m # "approve-all" THEN [prompts |-> <<>>, result |-> ReturnsUndefined]
    ELSE IF ~ui THEN [prompts |-> <<>>, result |-> [block |-> TRUE, reason |-> NoUIReason]]
    ELSE IF confirmed
         THEN [prompts |-> <<ApprovePrompt(confirmed)>>,
               result |-> [block |-> TRUE, reason |-> UserReason(toolName)]]
         ELSE [prompts |-> <<ApprovePrompt(confirmed)>>, result |-> ReturnsUndefined]

\* The tool_call handler from `if (mode !== "approve-all")` on.
toolCallDecision(m, ui, confirmed, toolName) ==
    IF m # "approve-all" THEN [prompts |-> <<>>, result |-> ReturnsUndefined]
    ELSE IF ~ui THEN [prompts |-> <<>>, result |-> [block |-> TRUE, reason |-> NoUIReason]]
    ELSE IF ~confirmed
         THEN [prompts |-> <<ApprovePrompt(confirmed)>>,
               result |-> [block |-> TRUE, reason |-> UserReason(toolName)]]
         ELSE [prompts |-> <<ApprovePrompt(confirmed)>>, result |-> ReturnsUndefined]

Bump(n) == IF n < MaxLazyPrompts THEN n + 1 ELSE n

\* ------------------------------------------- the other parts as constructed

\* let timer: ... | undefined
NoTimer == 0
\* setStatus("runtime-uptime", undefined), and the fragment before any call.
StatusCleared == [value |-> undefined]
NotFormatted == <<>>

\* runtime-uptime.ts constructed and sent no event, the clock standing still.
UptimeAtRest ==
    /\ startTimeMs = 0
    /\ timer = NoTimer
    /\ nowMs = 0
    /\ timers = {}
    /\ uptimeStatus = StatusCleared
    /\ uev = "none"
    /\ lastLifecycle = "none"
    /\ reports = <<>>

\* formatDuration not called.
FormatAtRest ==
    /\ ms = 0
    /\ formatted = NotFormatted

\* -------------------------------------------------------------------- Init

Init ==
    /\ mode = undefined
    /\ branch \in HostBranches
    /\ hasUI \in BOOLEAN
    /\ pending = "session_start"
    /\ status = undefined
    /\ ev = [name |-> "none", toolName |-> undefined]
    /\ prevMode = undefined
    /\ prompts = <<>>
    /\ notified = <<>>
    /\ result = ReturnsUndefined
    /\ lazyPrompts = 0
    /\ UptimeAtRest
    /\ FormatAtRest

\* ------------------------------------------------------------ host actions

\* Tree navigation: the host makes another branch of the session active.
HostTree ==
    /\ pending = "none"
    /\ \E b \in HostBranches : branch' = b
    /\ pending' = "session_tree"
    /\ UNCHANGED <<mode, hasUI, status, ev, prevMode, prompts, notified, result, lazyPrompts>>
    /\ UNCHANGED <<uptimeVars, formatVars>>

\* Fork: the new session holds the branch up to a chosen entry.
HostFork ==
    /\ pending = "none"
    /\ \E b \in Prefixes(branch) : branch' = b
    /\ pending' = "session_fork"
    /\ UNCHANGED <<mode, hasUI, status, ev, prevMode, prompts, notified, result, lazyPrompts>>
    /\ UNCHANGED <<uptimeVars, formatVars>>

\* Session switch: another session becomes active. The extension registers
\* no session_switch handler, so nothing of it runs.
HostSwitch ==
    /\ pending = "none"
    /\ \E b \in HostBranches : branch' = b
    /\ UNCHANGED <<mode, hasUI, pending, status, ev, prevMode, prompts, notified, result,
                   lazyPrompts>>
    /\ UNCHANGED <<uptimeVars, formatVars>>

\* The host records a message or another extension's entry on the branch.
HostAppend ==
    /\ pending = "none"
    /\ Len(branch) < MaxBranch
    /\ \E e \in HostEntries : branch' = Append(branch, e)
    /\ UNCHANGED <<mode, hasUI, pending, status, ev, prevMode, prompts, notified, result,
                   lazyPrompts>>
    /\ UNCHANGED <<uptimeVars, formatVars>>

\* ---------------------------------------------------------------- handlers

\* Variant of Restore: the restored mode is persisted again.
RestorePersists(name) ==
    /\ pending = name
    /\ mode' = restoredMode(branch, mode)
    /\ branch' = persistMode(branch, mode')
    /\ status' = modeStatusText(mode')
    /\ pending' = "none"
    /\ ev' = [name |-> name, toolName |-> undefined]
    /\ prevMode' = mode
    /\ prompts' = <<>>
    /\ notified' = <<>>
    /\ result' = ReturnsUndefined
    /\ UNCHANGED <<hasUI, lazyPrompts>>
    /\ UNCHANGED <<uptimeVars, formatVars>>

\* restoreModeFromBranch as run by the handler of lifecycle event `name`.
Restore(name) ==
    /\ pending = name
    /\ mode' = restoredMode(branch, mode)
    /\ status' = modeStatusText(mode')
    /\ pending' = "none"
    /\ ev' = [name |-> name, toolName |-> undefined]
    /\ prevMode' = mode
    /\ prompts' = <<>>
    /\ notified' = <<>>
    /\ result' = ReturnsUndefined
    /\ UNCHANGED <<branch, hasUI, lazyPrompts>>
    /\ UNCHANGED <<uptimeVars, formatVars>>

SessionStart == Restore("session_start")
SessionTree == Restore("session_tree")
SessionFork == Restore("session_fork")

Input ==
    /\ pending = "none"
    /\ \E allowAll \in BOOLEAN :
        LET sel == selectIfUnset(mode, branch, status, hasUI, allowAll) IN
        /\ Len(sel.branch) <= MaxBranch
        /\ mode' = sel.mode
        /\ branch' = sel.branch
        /\ status' = sel.status
        /\ prompts' = sel.prompts
        /\ lazyPrompts' = IF sel.prompts # <<>> THEN Bump(lazyPrompts) ELSE lazyPrompts
    /\ ev' = [name |-> "input", toolName |-> undefined]
    /\ prevMode' = mode
    /\ notified' = <<>>
    /\ result' = [action |-> "continue"]
    /\ UNCHANGED <<hasUI, pending>>
    /\ UNCHANGED <<uptimeVars, formatVars>>

ToolCall ==
    /\ pending = "none"
    /\ \E toolName \in ToolNames, allowAll \in BOOLEAN, confirmed \in BOOLEAN :
        LET sel == selectIfUnset(mode, branch, status, hasUI, allowAll)
            dec == toolCallDecision(sel.mode, hasUI, confirmed, toolName) IN
        /\ Len(sel.branch) <= MaxBranch
        /\ mode' = sel.mode
        /\ branch' = sel.branch
        /\ status' = sel.status
        /\ prompts' = sel.prompts \o dec.prompts
        /\ lazyPrompts' = IF sel.prompts # <<>> THEN Bump(lazyPrompts) ELSE lazyPrompts
        /\ result' = dec.result
        /\ ev' = [name |-> "tool_call", toolName |-> toolName]
    /\ prevMode' = mode
    /\ notified' = <<>>
    /\ UNCHANGED <<hasUI, pending>>
    /\ UNCHANGED <<uptimeVars, formatVars>>

\* Variant of approvalModeCommand: an existing policy is kept without asking.
approvalModeCommandLazy(m, b, st, ui, allowAll) ==
    IF ~ui
    THEN [mode |-> m, branch |-> b, status |-> st, prompts |-> <<>>,
          notified |-> <<[message |-> <<"No interactive UI available">>, level |-> "warning"]>>]
    ELSE IF m # undefined
    THEN [mode |-> m, branch |-> b, status |-> modeStatusText(m), prompts |-> <<>>,
          notified |-> <<[message |-> <<"Permission mode set to ", m>>, level |-> "info"]>>]
    ELSE [mode |-> modeFromAnswer(allowAll),
          branch |-> persistMode(b, modeFromAnswer(allowAll)),
          status |-> modeStatusText(modeFromAnswer(allowAll)),
          prompts |-> <<ModePrompt(allowAll)>>,
          notified |-> <<[message |-> <<"Permission mode set to ", modeFromAnswer(allowAll)>>,
                          level |-> "info"]>>]

\* Variant of approvalModeCommand: the hasUI guard is missing.
approvalModeCommandNoGuard(m, b, st, ui, allowAll) ==
    [mode |-> modeFromAnswer(allowAll),
     branch |-> persistMode(b, modeFromAnswer(allowAll)),
     status |-> modeStatusText(modeFromAnswer(allowAll)),
     prompts |-> <<ModePrompt(allowAll)>>,
     notified |-> <<[message |-> <<"Permission mode set to ", modeFromAnswer(allowAll)>>,
                     level |-> "info"]>>]

\* The approval-mode command: what it leaves, shows and notifies.
approvalModeCommand(m, b, st, ui, allowAll) ==
    IF ~ui
    THEN [mode |-> m, branch |-> b, status |-> st, prompts |-> <<>>,
          notified |-> <<[message |-> <<"No interactive UI available">>, level |-> "warning"]>>]
    ELSE [mode |-> modeFromAnswer(allowAll),
          branch |-> persistMode(b, modeFromAnswer(allowAll)),
          status |-> modeStatusText(modeFromAnswer(allowAll)),
          prompts |-> <<ModePrompt(allowAll)>>,
          notified |-> <<[message |-> <<"Permission mode set to ", modeFromAnswer(allowAll)>>,
                          level |-> "info"]>>]

Command ==
    /\ pending = "none"
    /\ \E allowAll \in BOOLEAN :
        LET out == approvalModeCommand(mode, branch, status, hasUI, allowAll) IN
        /\ Len(out.branch) <= MaxBranch
        /\ mode' = out.mode
        /\ branch' = out.branch
        /\ status' = out.status
        /\ prompts' = out.prompts
        /\ notified' = out.notified
    /\ ev' = [name |-> "approval-mode", toolName |-> undefined]
    /\ prevMode' = mode
    /\ result' = ReturnsUndefined
    /\ UNCHANGED <<hasUI, pending, lazyPrompts>>
    /\ UNCHANGED <<uptimeVars, formatVars>>

Next ==
    \/ HostTree
    \/ HostFork
    \/ HostSwitch
    \/ HostAppend
    \/ SessionStart
    \/ SessionTree
    \/ SessionFork
    \/ Input
    \/ ToolCall
    \/ Command

Spec == Init /\ [][Next]_vars

\* ------------------------------------------------- runtime-uptime.ts

\* approval-mode.ts constructed and sent no event.
ApprovalAtRest ==
    /\ mode = undefined
    /\ branch = <<>>
    /\ hasUI = TRUE
    /\ pending = "session_start"
    /\ status = undefined
    /\ ev = [name |-> "none", toolName |-> undefined]
    /\ prevMode = undefined
    /\ prompts = <<>>
    /\ notified = <<>>
    /\ result = ReturnsUndefined
    /\ lazyPrompts = 0

DecimalDigits == <<"0", "1", "2", "3", "4", "5", "6", "7", "8", "9">>

\* Number.prototype.toString() of a non-negative integer, as characters.
RECURSIVE toString(_)
toString(n) ==
    IF n < 10 THEN <<DecimalDigits[n + 1]>>
    ELSE toString(n \div 10) \o <<DecimalDigits[(n % 10) + 1]>>

\* String.prototype.padStart(2, "0")
padStart2(str) ==
    IF Len(str) >= 2 THEN str
    ELSE IF Len(str) = 1 THEN <<"0">> \o str
    ELSE <<"0", "0">>

\* Math.max(0, x)
MathMax0(x) == IF x > 0 THEN x ELSE 0

\* Variant of formatDuration: minutes taken from the total, without `% 3600`.
formatDurationMinutesOfTotal(d) ==
    LET totalSeconds == MathMax0(d \div 1000)
        hours == totalSeconds \div 3600
        minutes == totalSeconds \div 60
        seconds == totalSeconds % 60
    IN  padStart2(toString(hours)) \o <<":">> \o padStart2(toString(minutes))
            \o <<":">> \o padStart2(toString(seconds))

\* Math.floor(ms / 1000) is \div, which rounds towards minus infinity.
formatDuration(d) ==
    LET totalSeconds == MathMax0(d \div 1000)
        hours == totalSeconds \div 3600
        minutes == (totalSeconds % 3600) \div 60
        seconds == totalSeconds % 60
    IN  padStart2(toString(hours)) \o <<":">> \o padStart2(toString(minutes))
            \o <<":">> \o padStart2(toString(seconds))

\* The status text renderStatus sets: theme.fg("dim", `uptime ${elapsed}`).
renderStatus(now, start) ==
    [style |-> "dim", text |-> <<"uptime ">> \o formatDuration(now - start)]

\* A report of the elapsed time, by setStatus or by notify: `via` names the
\* handler or callback that made it, `at` is the clock it read.
Report(via, at, start) == [via |-> via, at |-> at, text |-> formatDuration(at - start)]

\* The log keeps the newest MaxReports reports.
Logged(log, r) ==
    IF Len(log) < MaxReports THEN Append(log, r) ELSE Append(Tail(log), r)

\* Variant of stopTimer: the handle is dropped and clearInterval is not called.
stopTimerNoClear(tm, tms) == [timer |-> NoTimer, timers |-> tms]

\* stopTimer: the handle and the runtime's armed intervals it leaves.
stopTimer(tm, tms) ==
    IF tm = NoTimer THEN [timer |-> tm, timers |-> tms]
    ELSE [timer |-> NoTimer, timers |-> {t \in tms : t.id # tm}]

\* setInterval(..., 1000): a handle not in use, due one second from now.
setInterval(tms, now) ==
    [id |-> CHOOSE i \in 1..(Cardinality(tms) + 1) : \A t \in tms : t.id # i,
     due |-> now + 1000]

\* Variant of startTimer: stopTimer() is not called first.
startTimerNoStop(tm, tms, now, start) ==
    LET armed == setInterval(tms, now) IN
    [start |-> start, timer |-> armed.id, timers |-> tms \cup {armed},
     status |-> renderStatus(now, start)]

\* Variant of startTimer: the start timestamp is taken anew.
startTimerResetsStart(tm, tms, now, start) ==
    LET stopped == stopTimer(tm, tms)
        armed == setInterval(stopped.timers, now) IN
    [start |-> now, timer |-> armed.id, timers |-> stopped.timers \cup {armed},
     status |-> renderStatus(now, now)]

\* startTimer: what it leaves of the closure, the runtime and the status.
startTimer(tm, tms, now, start) ==
    LET stopped == stopTimer(tm, tms)
        armed == setInterval(stopped.timers, now) IN
    [start |-> start, timer |-> armed.id, timers |-> stopped.timers \cup {armed},
     status |-> renderStatus(now, start)]

UptimeInit ==
    /\ ApprovalAtRest
    /\ FormatAtRest
    /\ startTimeMs \in {0, 500, 1000}
    /\ nowMs = startTimeMs
    /\ timer = NoTimer
    /\ timers = {}
    /\ uptimeStatus = StatusCleared
    /\ uev = "none"
    /\ lastLifecycle = "none"
    /\ reports = <<>>

\* The clock moves on by half a second.
ClockAdvance ==
    /\ nowMs < 1000 + MaxClockSteps * 500
    /\ nowMs' = nowMs + 500
    /\ UNCHANGED <<startTimeMs, timer, timers, uptimeStatus, uev, lastLifecycle, reports>>
    /\ UNCHANGED <<approvalVars, formatVars>>

\* The session_start and session_switch handlers: startTimer(ctx).
UptimeStart(name) ==
    LET out == startTimer(timer, timers, nowMs, startTimeMs) IN
    /\ Cardinality(out.timers) <= MaxTimers
    /\ startTimeMs' = out.start
    /\ timer' = out.timer
    /\ timers' = out.timers
    /\ uptimeStatus' = out.status
    /\ reports' = Logged(reports, Report(name, nowMs, out.start))
    /\ uev' = name
    /\ lastLifecycle' = name
    /\ UNCHANGED nowMs
    /\ UNCHANGED <<approvalVars, formatVars>>

UptimeSessionStart == UptimeStart("session_start")
UptimeSessionSwitch == UptimeStart("session_switch")

\* The session_shutdown handler.
UptimeSessionShutdown ==
    LET stopped == stopTimer(timer, timers) IN
    /\ timer' = stopped.timer
    /\ timers' = stopped.timers
    /\ uptimeStatus' = StatusCleared
    /\ uev' = "session_shutdown"
    /\ lastLifecycle' = "session_shutdown"
    /\ UNCHANGED <<startTimeMs, nowMs, reports>>
    /\ UNCHANGED <<approvalVars, formatVars>>

\* The uptime command: Date.now() is read for the notification and again for
\* the status; the clock may move between the two reads.
UptimeCommand ==
    /\ \E later \in {nowMs, nowMs + 500} :
        /\ later <= 1000 + MaxClockSteps * 500
        /\ nowMs' = later
        /\ uptimeStatus' = renderStatus(later, startTimeMs)
        /\ reports' = Logged(Logged(reports, Report("uptime notify", nowMs, startTimeMs)),
                             Report("uptime", later, startTimeMs))
    /\ uev' = "uptime"
    /\ UNCHANGED <<startTimeMs, timer, timers, lastLifecycle>>
    /\ UNCHANGED <<approvalVars, formatVars>>

\* The callback of an armed interval that is due runs and is due again a
\* second later.
TimerTick ==
    /\ \E t \in timers :
        /\ nowMs >= t.due
        /\ timers' = (timers \ {t}) \cup {[id |-> t.id, due |-> t.due + 1000]}
    /\ uptimeStatus' = renderStatus(nowMs, startTimeMs)
    /\ reports' = Logged(reports, Report("tick", nowMs, startTimeMs))
    /\ uev' = "tick"
    /\ UNCHANGED <<startTimeMs, timer, nowMs, lastLifecycle>>
    /\ UNCHANGED <<approvalVars, formatVars>>

UptimeNext ==
    \/ ClockAdvance
    \/ UptimeSessionStart
    \/ UptimeSessionSwitch
    \/ UptimeSessionShutdown
    \/ UptimeCommand
    \/ TimerTick

SpecUptime == UptimeInit /\ [][UptimeNext]_vars

\* ------------------------------------------------ formatDuration on its own

\* Arguments: every quarter second of a range around zero, the values next to
\* a whole second, minute and hour, and durations of two and three hour digits.
DurationInputs ==
    {250 * k : k \in -8..MaxQuarterSeconds}
        \cup {-1001, -1000, -999, -1, 1, 999, 1001, 59999, 60000, 61000,
              3599000, 3599999, 3600000, 3661000, 35999000, 36000000,
              86399999, 359999999, 360000000, 445323000}

FormatInit ==
    /\ ApprovalAtRest
    /\ UptimeAtRest
    /\ ms \in DurationInputs
    /\ formatted = NotFormatted

FormatCall ==
    /\ formatted = NotFormatted
    /\ formatted' = formatDuration(ms)
    /\ UNCHANGED ms
    /\ UNCHANGED <<approvalVars, uptimeVars>>

\* The next call, with another argument.
FormatReturn ==
    /\ formatted # NotFormatted
    /\ ms' \in DurationInputs
    /\ formatted' = NotFormatted
    /\ UNCHANGED <<approvalVars, uptimeVars>>

FormatNext == FormatCall \/ FormatReturn

SpecFormat == FormatInit /\ [][FormatNext]_vars

\* ------------------------------------------------ vocabulary of the claims

\* A policy-change record: an entry tagged for this extension that carries one
\* of the two policy values.
IsPolicyRecord(e) ==
    /\ e.type = "custom"
    /\ e.customType = "approval-mode-state"
    /\ e.data \in {"allow-all", "approve-all"}

PolicyRecordAt(b) == {i \in 1..Len(b) : IsPolicyRecord(b[i])}

\* The value of the last policy-change record of b in branch order, if any.
LastPolicy(b) ==
    IF PolicyRecordAt(b) = {} THEN undefined
    ELSE b[CHOOSE i \in PolicyRecordAt(b) : \A j \in PolicyRecordAt(b) : j <= i].data

PolicyRecord(m) == [type |-> "custom", customType |-> "approval-mode-state", data |-> m]

RestoreStep == SessionStart \/ SessionTree \/ SessionFork
RestoreEvents == {"session_start", "session_tree", "session_fork"}

ApprovePromptsShown == {i \in 1..Len(prompts) : prompts[i].title = "Approve tool call?"}
ModePromptsShown == {i \in 1..Len(prompts) : prompts[i].title = "Permission mode"}
Blocked == "block" \in DOMAIN result

\* ------------------------------------------------------------------ claims

\* C1 as stated: after every restore (session_start, session_tree,
\* session_fork), whatever the branch and the prior policy, the policy is the
\* value of the last policy-change entry of the branch, or unset if the branch
\* holds none.
C1_RestoreYieldsLastOrUnset ==
    [][RestoreStep => mode' = LastPolicy(branch)]_vars

\* C1 amended: after every restore the policy is the value of the last valid
\* policy-change entry of the branch, and when the branch holds none the policy
\* is what it was before the restore (unset only if it was unset).
C1_RestoreYieldsLastOrPrior ==
    [][RestoreStep =>
        mode' = IF LastPolicy(branch) # undefined THEN LastPolicy(branch) ELSE mode]_vars

\* C1 witness: a restore ran over a branch with several policy records while
\* another policy was in memory, and replaced it.
C1_Witness ==
    /\ ev.name \in RestoreEvents
    /\ pending = "none"
    /\ Cardinality(PolicyRecordAt(branch)) >= 2
    /\ prevMode \in ApprovalMode
    /\ mode # prevMode
    /\ mode = LastPolicy(branch)

\* C2 as stated: with no UI attached, a policy that is set is "approve-all".
C2_NoUIPolicyIsApproveAll ==
    (~hasUI /\ mode # undefined) => mode = "approve-all"

\* C2 amended: with no UI attached, the policy becomes "allow-all" only by a
\* restore from a branch whose last valid policy record is "allow-all"; every
\* policy that an input, tool_call or command handler sets is "approve-all".
C2_NoUIAllowAllOnlyRestored ==
    [][~hasUI =>
        /\ (mode' = "allow-all" /\ mode # "allow-all")
              => (RestoreStep /\ LastPolicy(branch) = "allow-all")
        /\ ((Input \/ ToolCall \/ Command) /\ mode' # mode) => mode' = "approve-all"]_vars

\* C2 witness: with no UI, a handler has set a policy that was unset.
C2_Witness ==
    /\ ~hasUI
    /\ ev.name \in {"input", "tool_call"}
    /\ prevMode = undefined
    /\ mode = "approve-all"

\* C3: a tool call decided under "allow-all" shows no prompt when the policy
\* was already "allow-all", never shows the 'Approve tool call?' prompt, and
\* returns no blocking instruction, with or without a UI.
C3_AllowAllNeverPromptsNorBlocks ==
    (ev.name = "tool_call" /\ mode = "allow-all") =>
        /\ ApprovePromptsShown = {}
        /\ ~Blocked
        /\ result = [value |-> "undefined"]
        /\ prevMode = "allow-all" => prompts = <<>>

\* C3 witness: a tool call handled under "allow-all" with no UI attached.
C3_Witness ==
    /\ ev.name = "tool_call"
    /\ prevMode = "allow-all"
    /\ mode = "allow-all"
    /\ ~hasUI
    /\ ~Blocked
\* C4: a tool call decided under "approve-all" with no UI attached returns the
\* blocking instruction with the fixed 'requires interactive confirmation'
\* reason, and no prompt of any kind is shown.
C4_ApproveAllNoUIBlocks ==
    (ev.name = "tool_call" /\ mode = "approve-all" /\ ~hasUI) =>
        /\ result = [block |-> TRUE,
                     reason |-> <<"Tool call blocked (approve-all mode requires interactive confirmation)">>]
        /\ prompts = <<>>

\* C4 witness: a tool call that found the policy already "approve-all", no UI.
C4_Witness ==
    /\ ev.name = "tool_call"
    /\ prevMode = "approve-all"
    /\ mode = "approve-all"
    /\ ~hasUI
    /\ Blocked

\* C5: a tool call decided under "approve-all" with a UI attached shows exactly
\* one 'Approve tool call?' prompt; it is blocked iff that prompt is declined;
\* the blocking reason names the tool; a confirmed call returns nothing.
C5_ApproveAllUIBlockedIffDeclined ==
    (ev.name = "tool_call" /\ mode = "approve-all" /\ hasUI) =>
        /\ Cardinality(ApprovePromptsShown) = 1
        /\ \A i \in ApprovePromptsShown :
            /\ Blocked <=> ~prompts[i].answer
            /\ ~prompts[i].answer =>
                 result = [block |-> TRUE,
                           reason |-> <<"Blocked by user (tool: ", ev.toolName, ")">>]
            /\ prompts[i].answer => result = [value |-> "undefined"]

\* C5 witness: a declined tool call, blocked with a reason naming the tool.
C5_Witness ==
    /\ ev.name = "tool_call"
    /\ ev.toolName = "mcp"
    /\ prevMode = "approve-all"
    /\ hasUI
    /\ prompts = <<[title |-> "Approve tool call?", answer |-> FALSE]>>
    /\ Blocked

\* C6: a tool call that arrives while no policy is set and no UI is attached
\* sets the policy to "approve-all", shows no prompt, appends exactly one policy
\* record carrying "approve-all", and is blocked.
C6_LazyFailSafe ==
    [][(ToolCall /\ mode = undefined /\ ~hasUI) =>
        /\ mode' = "approve-all"
        /\ prompts' = <<>>
        /\ branch' = Append(branch, PolicyRecord("approve-all"))
        /\ "block" \in DOMAIN result']_vars

\* C6 witness: such a tool call has been handled and its record is the last
\* entry of the branch.
C6_Witness ==
    /\ ev.name = "tool_call"
    /\ prevMode = undefined
    /\ ~hasUI
    /\ mode = "approve-all"
    /\ Blocked
    /\ Len(branch) > 0
    /\ branch[Len(branch)] = PolicyRecord("approve-all")

\* C7: at every tool-call decision, if the active branch holds a policy-change
\* record then the policy applied to the call is the value of the last such
\* record in branch order.
C7_ToolCallAppliesLastRecord ==
    [][(ToolCall /\ LastPolicy(branch) # undefined) => mode' = LastPolicy(branch)]_vars

\* C8: the approval-mode command with a UI attached shows the mode prompt
\* whatever the existing policy, sets the policy to the answer and appends
\* exactly one policy record carrying the new value.
C8_CommandPromptsSetsPersists ==
    [][(Command /\ hasUI) =>
        /\ Len(prompts') = 1
        /\ prompts'[1].title = "Permission mode"
        /\ mode' = IF prompts'[1].answer THEN "allow-all" ELSE "approve-all"
        /\ branch' = Append(branch, PolicyRecord(mode'))]_vars

\* C8 witness: the command ran over an existing policy and changed it.
C8_Witness ==
    /\ ev.name = "approval-mode"
    /\ hasUI
    /\ prevMode = "allow-all"
    /\ mode = "approve-all"
    /\ prompts = <<[title |-> "Permission mode", answer |-> FALSE]>>

\* C9: the approval-mode command with no UI attached issues one warning
\* notification and nothing else: policy, history and status are unchanged and
\* no prompt is shown.
C9_CommandNoUIOnlyWarns ==
    [][(Command /\ ~hasUI) =>
        /\ mode' = mode
        /\ branch' = branch
        /\ status' = status
        /\ prompts' = <<>>
        /\ Len(notified') = 1
        /\ notified'[1].level = "warning"]_vars

\* C9 witness: the command ran with no UI while a policy was set.
C9_Witness ==
    /\ ev.name = "approval-mode"
    /\ ~hasUI
    /\ mode # undefined
    /\ Len(notified) = 1

\* C10: over one process lifetime the lazy mode-selection prompt (the one
\* input and tool_call show) appears at most once, and only when no policy was
\* set; any other mode prompt comes from the approval-mode command.
C10_LazyPromptAtMostOnce ==
    /\ lazyPrompts <= 1
    /\ (ModePromptsShown # {} /\ ev.name # "approval-mode") =>
          (ev.name \in {"input", "tool_call"} /\ prevMode = undefined /\ lazyPrompts = 1)

\* C10 witness: after the lazy prompt was shown, a fork back to a branch with
\* no policy record was restored, and a later input showed no prompt.
C10_Witness ==
    /\ lazyPrompts = 1
    /\ ev.name = "input"
    /\ prevMode # undefined
    /\ prompts = <<>>
    /\ hasUI
    /\ PolicyRecordAt(branch) = {}

\* C13: whenever the policy is set by lazy resolution (input or tool_call with
\* no policy set) or by the approval-mode command with a UI, exactly one record
\* carrying the new value is appended, and a restore run right afterwards on that
\* branch, from any in-memory policy, yields the same policy.
C13_PersistThenRestore ==
    [][(((Input \/ ToolCall) /\ mode = undefined) \/ (Command /\ hasUI)) =>
        /\ mode' \in {"allow-all", "approve-all"}
        /\ branch' = Append(branch, PolicyRecord(mode'))
        /\ LastPolicy(branch') = mode'
        /\ \A m \in {"undefined", "allow-all", "approve-all"} :
              restoredMode(branch', m) = mode']_vars

\* C13 witness: the lazy prompt set "allow-all" on a branch that held one
\* message, and the new record is the last entry.
C13_Witness ==
    /\ ev.name = "input"
    /\ hasUI
    /\ prevMode = undefined
    /\ mode = "allow-all"
    /\ Len(branch) = 2
    /\ branch[1].type = "message"
    /\ branch[2] = PolicyRecord("allow-all")

\* C14: a restore leaves the history as it is, and every other handler leaves
\* the history it found as a prefix of the history it leaves.
C14_HistoryAppendOnly ==
    [][/\ RestoreStep => branch' = branch
       /\ (Input \/ ToolCall \/ Command) =>
             /\ Len(branch') >= Len(branch)
             /\ SubSeq(branch', 1, Len(branch)) = branch]_vars

\* C14 witness: a restore over a branch of two entries has changed the policy.
C14_Witness ==
    /\ ev.name = "session_tree"
    /\ pending = "none"
    /\ prevMode = "approve-all"
    /\ mode = "allow-all"
    /\ Len(branch) = 2

\* C15: with a policy already set, an input or tool_call event shows no mode
\* prompt, leaves the policy and the history unchanged; an input event returns
\* the 'continue' instruction in every case.
C15_SetPolicyIsLeftAlone ==
    [][/\ ((Input \/ ToolCall) /\ mode # undefined) =>
             /\ {i \in 1..Len(prompts') : prompts'[i].title = "Permission mode"} = {}
             /\ mode' = mode
             /\ branch' = branch
       /\ Input => result' = [action |-> "continue"]]_vars

\* C15 witness: an input event handled with a UI while "approve-all" was set.
C15_Witness ==
    /\ ev.name = "input"
    /\ hasUI
    /\ prevMode = "approve-all"
    /\ mode = "approve-all"
    /\ prompts = <<>>
    /\ result = [action |-> "continue"]

\* C18: once the policy is set, no step unsets it.
C18_NeverUnset ==
    [][mode # undefined => mode' # undefined]_vars

\* C18 witness: a restore ran over a branch with no policy record while a
\* policy was set, and the policy is still set.
C18_Witness ==
    /\ ev.name \in RestoreEvents
    /\ pending = "none"
    /\ prevMode = "allow-all"
    /\ PolicyRecordAt(branch) = {}
    /\ mode = "allow-all"

\* The status text that belongs to a policy; none for an unset policy.
StatusTextOf(m) ==
    IF m = "allow-all" THEN "<dim>approval: allow all"
    ELSE IF m = "approve-all" THEN "<warning>approval: confirm each tool"
    ELSE "undefined"

\* C19 as stated: the status fragment is the text of the current policy, and is
\* empty exactly when the policy is unset, with or without a UI.
C19_StatusReflectsPolicy ==
    status = StatusTextOf(mode)

\* C19 amended: with a UI attached the status fragment is the text of the
\* current policy, empty exactly when the policy is unset; with no UI it is
\* that text too, except after the lazy fail-safe, which sets "approve-all"
\* and leaves the status as it was: then it is empty or the text of the policy.
C19_StatusReflectsPolicyWithUI ==
    /\ hasUI => status = StatusTextOf(mode)
    /\ (~hasUI /\ status # StatusTextOf(mode)) =>
          (mode = "approve-all" /\ status = "undefined")

\* C19 witness: the command changed the policy and the status followed.
C19_Witness ==
    /\ ev.name = "approval-mode"
    /\ hasUI
    /\ prevMode = "approve-all"
    /\ mode = "allow-all"
    /\ status = "<dim>approval: allow all"

\* ------------------------------------- vocabulary of the uptime claims

IsDigit(c) == c \in {"0", "1", "2", "3", "4", "5", "6", "7", "8", "9"}

DigitValue(c) ==
    CASE c = "0" -> 0 [] c = "1" -> 1 [] c = "2" -> 2 [] c = "3" -> 3 [] c = "4" -> 4
      [] c = "5" -> 5 [] c = "6" -> 6 [] c = "7" -> 7 [] c = "8" -> 8 [] c = "9" -> 9

\* The number a sequence of digits writes.
RECURSIVE NumberOf(_)
NumberOf(digits) ==
    IF digits = <<>> THEN 0
    ELSE 10 * NumberOf(SubSeq(digits, 1, Len(digits) - 1)) + DigitValue(digits[Len(digits)])

Colons(t) == {i \in 1..Len(t) : t[i] = ":"}
FirstColon(t) == CHOOSE i \in Colons(t) : \A j \in Colons(t) : i <= j
LastColon(t) == CHOOSE i \in Colons(t) : \A j \in Colons(t) : j <= i
HoursField(t) == SubSeq(t, 1, FirstColon(t) - 1)
MinutesField(t) == SubSeq(t, FirstColon(t) + 1, LastColon(t) - 1)
SecondsField(t) == SubSeq(t, LastColon(t) + 1, Len(t))

\* t reads HH:MM:SS: digits and two colons, two digits of minutes and of
\* seconds, hours padded with zeros to two digits and no further.
IsClockText(t) ==
    /\ Cardinality(Colons(t)) = 2
    /\ \A i \in (1..Len(t)) \ Colons(t) : IsDigit(t[i])
    /\ Len(MinutesField(t)) = 2
    /\ Len(SecondsField(t)) = 2
    /\ Len(HoursField(t)) >= 2
    /\ Len(HoursField(t)) > 2 => HoursField(t)[1] # "0"

\* The seconds a clock text stands for.
ClockSeconds(t) ==
    3600 * NumberOf(HoursField(t)) + 60 * NumberOf(MinutesField(t))
        + NumberOf(SecondsField(t))

\* ----------------------------------------------------- claims, continued

\* C11: for every integer ms, formatDuration(ms) is the zero-padded HH:MM:SS
\* text of max(0, floor(ms / 1000)) seconds with minutes and seconds in 0..59;
\* 0 gives "00:00:00", 3661000 gives "01:01:01", a negative value "00:00:00".
C11_FormatDuration ==
    formatted # <<>> =>
        /\ IsClockText(formatted)
        /\ NumberOf(MinutesField(formatted)) \in 0..59
        /\ NumberOf(SecondsField(formatted)) \in 0..59
        /\ ClockSeconds(formatted) = IF ms < 0 THEN 0 ELSE ms \div 1000
        /\ ms = 0 => formatted = <<"0", "0", ":", "0", "0", ":", "0", "0">>
        /\ ms = 3661000 => formatted = <<"0", "1", ":", "0", "1", ":", "0", "1">>
        /\ ms < 0 => formatted = <<"0", "0", ":", "0", "0", ":", "0", "0">>

\* C11 witness: formatDuration(3661000) has returned "01:01:01".
C11_Witness ==
    /\ ms = 3661000
    /\ formatted = <<"0", "1", ":", "0", "1", ":", "0", "1">>

\* C12 as stated: the elapsed time reported at a later render is greater than
\* at every earlier one.
C12_ElapsedStrictlyIncreases ==
    \A i, j \in 1..Len(reports) :
        i < j => ClockSeconds(reports[j].text) > ClockSeconds(reports[i].text)

\* C12 amended: the start timestamp never changes; a session switch arms the
\* one-second refresh anew; the elapsed time reported later is never less than
\* one reported earlier, and is greater when the clock was read at least one
\* second later (reports are in whole seconds, and the uptime command reports
\* twice in one go).
C12_ElapsedNeverReset ==
    /\ [](\A i, j \in 1..Len(reports) :
            i < j =>
              /\ ClockSeconds(reports[j].text) >= ClockSeconds(reports[i].text)
              /\ reports[j].at >= reports[i].at + 1000
                    => ClockSeconds(reports[j].text) > ClockSeconds(reports[i].text))
    /\ [][startTimeMs' = startTimeMs]_vars
    /\ [][UptimeSessionSwitch =>
            /\ timers' = {[id |-> timer', due |-> nowMs + 1000]}
            /\ reports'[Len(reports')].at = nowMs]_vars

\* C12 witness: a session switch more than a second after an earlier render
\* reported more elapsed time than that render.
C12_Witness ==
    /\ uev = "session_switch"
    /\ Len(reports) >= 2
    /\ reports[1].via = "session_start"
    /\ reports[Len(reports)].via = "session_switch"
    /\ ClockSeconds(reports[Len(reports)].text) > ClockSeconds(reports[1].text)

\* C16: at most one refresh interval is armed at any time, and an armed
\* interval is the one the timer handle refers to.
C16_AtMostOneTimer ==
    /\ Cardinality(timers) <= 1
    /\ \A t \in timers : timer # 0 /\ t.id = timer

\* C16 witness: a session switch right after a tick of the armed interval
\* armed the interval anew.
C16_Witness ==
    /\ uev = "session_switch"
    /\ Cardinality(timers) = 1
    /\ Len(reports) = 2
    /\ reports[1].via = "tick"
    /\ reports[2].via = "session_switch"
    /\ \E t \in timers : t.due = reports[2].at + 1000

\* C17: session_shutdown leaves no interval armed and the status cleared, and
\* from then to the next session_start or session_switch no interval is armed
\* and no timer callback runs.
C17_ShutdownStopsTimer ==
    /\ [](lastLifecycle = "session_shutdown" => (timers = {} /\ timer = 0))
    /\ [][UptimeSessionShutdown =>
            (timers' = {} /\ uptimeStatus' = [value |-> "undefined"])]_vars
    /\ [][lastLifecycle = "session_shutdown" => ~TimerTick]_vars

\* C17 witness: a shutdown after the interval had ticked; the status is clear.
C17_Witness ==
    /\ uev = "session_shutdown"
    /\ lastLifecycle = "session_shutdown"
    /\ uptimeStatus = [value |-> "undefined"]
    /\ timers = {}
    /\ Len(reports) >= 2
    /\ reports[Len(reports)].via = "tick"

TypeOK ==
    /\ mode \in ApprovalMode \cup {undefined}
    /\ branch \in SeqsUpTo(Entries, MaxBranch)
    /\ hasUI \in BOOLEAN
    /\ pending \in {"none", "session_start", "session_tree", "session_fork"}
    /\ lazyPrompts \in 0..MaxLazyPrompts

====
